---- MODULE Spec2Model ----
(***************************************************************************)
(* The USB device emulation layer of F2ido (src/usb.rs): the descriptor   *)
(* table built by Device::new, the EP0 control engine (ep0_dev2host,      *)
(* ep0_host2dev, get_descriptor, ...), the EP1 IN / EP2 OUT interrupt     *)
(* endpoints and the four URB handlers registered by init_callbacks.      *)
(* Bytes are naturals in 0..255; a struct is a record, serialised through *)
(* its field layout in little-endian order.                               *)
(***************************************************************************)
EXTENDS Integers, Sequences, FiniteSets, TLC

\* ------------------------------------------------------------------ bounds
\* largest transfer buffer (wLength) a descriptor request is made with
MaxBufLen == 255
\* number of EP2 OUT packets submitted in one run
MaxPackets == 3

\* --------------------------------------------------------------- constants
LANG_ID_EN_US == 1033
USB_CLASS_PER_INTERFACE == 0
USB_CLASS_HID == 3
USB_DT_ENDPOINT_SIZE == 7
USB_CONFIG_ATT_ONE == 128
USB_CONFIG_ATT_SELFPOWER == 64
USB_ENDPOINT_NUMBER_MASK == 15
USB_ENDPOINT_DIR_MASK == 128
USB_DIR_IN == 128
USB_DIR_OUT == 0
USB_ENDPOINT_XFER_INT == 3
USB_ENDPOINT_MAXP_MASK == 2047
HID_DT_HID == 33
HID_DT_REPORT == 34

\* enum discriminants
H2D == 0
D2H == 1
RT_Standard == 0
RT_Class == 1
RT_Vendor == 2
RT_Reserved == 3
RR_Device == 0
RR_Interface == 1
RR_Endpoint == 2
RR_Other == 3
SR_GetStatus == 0
SR_GetDescriptor == 6
SR_SetConfiguration == 9
HID_SetIdle == 10
DT_Device == 1
DT_Configuration == 2
DT_String == 3

\* the discriminants each PrimitiveEnum_u8 accepts in from_primitive
StandardRequest == {0, 1, 3, 5, 6, 7, 8, 9, 10, 11, 12}
HIDRequest == {1, 2, 3, 9, 10, 11}
DescriptorType == 1..8

\* ----------------------------------------------------------------- helpers
Min(a, b) == IF a < b THEN a ELSE b

RECURSIVE Pow256(_)
Pow256(n) == IF n = 0 THEN 1 ELSE 256 * Pow256(n - 1)

\* v.to_le() followed by the in-memory byte image of a w-byte integer
to_le_bytes(v, w) == [i \in 1..w |-> (v \div Pow256(i - 1)) % 256]

\* u16::from_le_bytes
from_le_bytes(lo, hi) == lo + 256 * hi

\* bitwise and / or of two naturals below 2^12
RECURSIVE BitAnd(_, _, _)
BitAnd(a, b, n) ==
    IF n = 0 THEN 0
    ELSE (IF a % 2 = 1 /\ b % 2 = 1 THEN 1 ELSE 0)
         + 2 * BitAnd(a \div 2, b \div 2, n - 1)

RECURSIVE BitOr(_, _, _)
BitOr(a, b, n) ==
    IF n = 0 THEN 0
    ELSE (IF a % 2 = 1 \/ b % 2 = 1 THEN 1 ELSE 0)
         + 2 * BitOr(a \div 2, b \div 2, n - 1)

And(a, b) == BitAnd(a, b, 12)
Or(a, b) == BitOr(a, b, 12)

Zeros(n) == [i \in 1..n |-> 0]

\* --------------------------------------------------------- struct layouts
\* a layout is the sequence of <<field, width in bytes>> of a packed struct
usb_device_descriptor ==
    << <<"bLength", 1>>, <<"bDescriptorType", 1>>, <<"bcdUSB", 2>>,
       <<"bDeviceClass", 1>>, <<"bDeviceSubClass", 1>>,
       <<"bDeviceProtocol", 1>>, <<"bMaxPacketSize0", 1>>,
       <<"idVendor", 2>>, <<"idProduct", 2>>, <<"bcdDevice", 2>>,
       <<"iManufacturer", 1>>, <<"iProduct", 1>>, <<"iSerialNumber", 1>>,
       <<"bNumConfigurations", 1>> >>

usb_config_descriptor ==
    << <<"bLength", 1>>, <<"bDescriptorType", 1>>, <<"wTotalLength", 2>>,
       <<"bNumInterfaces", 1>>, <<"bConfigurationValue", 1>>,
       <<"iConfiguration", 1>>, <<"bmAttributes", 1>>, <<"bMaxPower", 1>> >>

usb_interface_descriptor ==
    << <<"bLength", 1>>, <<"bDescriptorType", 1>>,
       <<"bInterfaceNumber", 1>>, <<"bAlternateSetting", 1>>,
       <<"bNumEndpoints", 1>>, <<"bInterfaceClass", 1>>,
       <<"bInterfaceSubClass", 1>>, <<"bInterfaceProtocol", 1>>,
       <<"iInterface", 1>> >>

usb_hid_descriptor ==
    << <<"bLength", 1>>, <<"bDescriptorType", 1>>, <<"bcdHID", 2>>,
       <<"bCountryCode", 1>>, <<"bNumDescriptors", 1>>,
       <<"bReportDescriptorType", 1>>, <<"wReportDescriptorLength", 2>> >>

usb_endpoint_descriptor ==
    << <<"bLength", 1>>, <<"bDescriptorType", 1>>,
       <<"bEndpointAddress", 1>>, <<"bmAttributes", 1>>,
       <<"wMaxPacketSize", 2>>, <<"bInterval", 1>>, <<"bRefresh", 1>>,
       <<"bSynchAddress", 1>> >>

usb_string_descriptor ==
    << <<"bLength", 1>>, <<"bDescriptorType", 1>>, <<"wData", 2>> >>

RECURSIVE size_of(_)
size_of(layout) ==
    IF layout = <<>> THEN 0 ELSE layout[1][2] + size_of(Tail(layout))

\* the memory image of a struct value: its fields in layout order
RECURSIVE as_bytes(_, _)
as_bytes(layout, data) ==
    IF layout = <<>> THEN <<>>
    ELSE to_le_bytes(data[layout[1][1]], layout[1][2])
         \o as_bytes(Tail(layout), data)

\* ------------------------------------------------- HID report descriptor
hid_report_descriptor ==
    << 6, 208, 241,      \* usage_page(FIDO)
       9, 1,             \* usage(CTAPHID)
       161, 1,           \* collection(APPLICATION)
       9, 32,            \* usage(FIDO_USAGE_DATA_IN)
       21, 0,            \* logical_minimum(0)
       38, 255, 0,       \* logical_maximum(0xff)
       117, 8,           \* report_size(8)
       149, 64,          \* report_count(64)
       129, 2,           \* input(DATA | VARIABLE | ABSOLUTE)
       9, 33,            \* usage(FIDO_USAGE_DATA_OUT)
       21, 0,            \* logical_minimum(0)
       38, 255, 0,       \* logical_maximum(0xff)
       117, 8,           \* report_size(8)
       149, 64,          \* report_count(64)
       145, 2,           \* output(DATA | VARIABLE | ABSOLUTE)
       192 >>            \* end_collection()

\* ------------------------------------------------------------ Device::new
\* a device descriptor that announces USB 2.00
device_descriptor_m ==
    [ bLength |-> size_of(usb_device_descriptor) % 256,
      bDescriptorType |-> DT_Device,
      bcdUSB |-> 512,
      bDeviceClass |-> USB_CLASS_PER_INTERFACE % 256,
      bDeviceSubClass |-> 0,
      bDeviceProtocol |-> 0,
      bMaxPacketSize0 |-> 64,
      idVendor |-> 0,
      idProduct |-> 0,
      bcdDevice |-> 1,
      iManufacturer |-> 1,
      iProduct |-> 2,
      iSerialNumber |-> 3,
      bNumConfigurations |-> 1 ]

device_descriptor ==
    [ bLength |-> size_of(usb_device_descriptor) % 256,
      bDescriptorType |-> DT_Device,
      bcdUSB |-> 272,
      bDeviceClass |-> USB_CLASS_PER_INTERFACE % 256,
      bDeviceSubClass |-> 0,
      bDeviceProtocol |-> 0,
      bMaxPacketSize0 |-> 64,
      idVendor |-> 0,
      idProduct |-> 0,
      bcdDevice |-> 1,
      iManufacturer |-> 1,
      iProduct |-> 2,
      iSerialNumber |-> 3,
      bNumConfigurations |-> 1 ]

\* a configuration descriptor whose wTotalLength also counts the report
\* descriptor, which the bundle does not carry
config_descriptor_m ==
    [ bLength |-> size_of(usb_config_descriptor) % 256,
      bDescriptorType |-> DT_Configuration,
      wTotalLength |-> size_of(usb_config_descriptor)
                       + size_of(usb_interface_descriptor)
                       + size_of(usb_hid_descriptor)
                       + Len(hid_report_descriptor)
                       + 2 * USB_DT_ENDPOINT_SIZE,
      bNumInterfaces |-> 1,
      bConfigurationValue |-> 0,
      iConfiguration |-> 4,
      bmAttributes |-> Or(USB_CONFIG_ATT_ONE, USB_CONFIG_ATT_SELFPOWER) % 256,
      bMaxPower |-> 0 ]

config_descriptor ==
    [ bLength |-> size_of(usb_config_descriptor) % 256,
      bDescriptorType |-> DT_Configuration,
      wTotalLength |-> size_of(usb_config_descriptor)
                       + size_of(usb_interface_descriptor)
                       + size_of(usb_hid_descriptor)
                       + 2 * USB_DT_ENDPOINT_SIZE,
      bNumInterfaces |-> 1,
      bConfigurationValue |-> 0,
      iConfiguration |-> 4,
      bmAttributes |-> Or(USB_CONFIG_ATT_ONE, USB_CONFIG_ATT_SELFPOWER) % 256,
      bMaxPower |-> 0 ]

interface_descriptor ==
    [ bLength |-> size_of(usb_interface_descriptor) % 256,
      bDescriptorType |-> 4,
      bInterfaceNumber |-> 0,
      bAlternateSetting |-> 0,
      bNumEndpoints |-> 2,
      bInterfaceClass |-> USB_CLASS_HID % 256,
      bInterfaceSubClass |-> 0,
      bInterfaceProtocol |-> 0,
      iInterface |-> 5 ]

hid_descriptor ==
    [ bLength |-> size_of(usb_hid_descriptor) % 256,
      bDescriptorType |-> HID_DT_HID % 256,
      bcdHID |-> 257,
      bCountryCode |-> 0,
      bNumDescriptors |-> 1,
      bReportDescriptorType |-> HID_DT_REPORT % 256,
      wReportDescriptorLength |-> Len(hid_report_descriptor) % 65536 ]

endpoint_descriptor(number, dir) ==
    [ bLength |-> USB_DT_ENDPOINT_SIZE % 256,
      bDescriptorType |-> 5,
      bEndpointAddress |-> Or(And(number, USB_ENDPOINT_NUMBER_MASK),
                              And(dir, USB_ENDPOINT_DIR_MASK)) % 256,
      bmAttributes |-> USB_ENDPOINT_XFER_INT % 256,
      wMaxPacketSize |-> And(64, USB_ENDPOINT_MAXP_MASK) % 65536,
      bInterval |-> 255,
      bRefresh |-> 0,
      bSynchAddress |-> 0 ]

endpoint_descriptors ==
    << endpoint_descriptor(1, USB_DIR_IN), endpoint_descriptor(2, USB_DIR_OUT) >>

\* the string table, each text as its sequence of Unicode code points
strings ==
    << <<115, 116, 114, 105, 110, 103, 48>>,                  \* "string0"
       <<70, 97, 107, 101, 99, 111, 109, 112, 97, 110, 121>>, \* "Fakecompany"
       <<83, 111, 102, 116, 112, 114, 111, 100, 117, 99, 116>>, \* "Softproduct"
       <<118, 48>>,                                           \* "v0"
       <<68, 101, 102, 97, 117, 108, 116, 32, 67, 111, 110, 102, 105, 103>>,
                                                              \* "Default Config"
       <<84, 104, 101, 32, 73, 110, 116, 101, 114, 102, 97, 99, 101>> >>
                                                              \* "The Interface"

\* the descriptor state of a freshly constructed Device
NewDevice ==
    [ device_descriptor |-> device_descriptor,
      config_descriptor |-> config_descriptor,
      interface_descriptor |-> interface_descriptor,
      hid_descriptor |-> hid_descriptor,
      hid_report_descriptor |-> hid_report_descriptor,
      endpoint_descriptors |-> endpoint_descriptors,
      strings |-> strings ]

\* ---------------------------------------------------------- SetupPacket
\* SetupPacket::unpack of the 8 SETUP bytes (packed_struct, lsb)
BmRequestType(b) ==
    [ direction |-> b \div 128,
      type_ |-> (b \div 32) % 4,
      recipient |-> b % 32 ]

SetupPacket(bytes) ==
    [ bm_request_type |-> BmRequestType(bytes[1]),
      b_request |-> bytes[2],
      w_value |-> from_le_bytes(bytes[3], bytes[4]),
      w_index |-> from_le_bytes(bytes[5], bytes[6]),
      w_length |-> from_le_bytes(bytes[7], bytes[8]) ]

request_type(req) ==
    << req.bm_request_type.direction,
       req.bm_request_type.type_,
       req.bm_request_type.recipient >>

args(req) == << req.w_value, req.w_index, req.w_length >>

\* the value an unwrap() of None never produces
NoValue == -1

std(req) ==
    IF req.b_request \in StandardRequest THEN req.b_request ELSE NoValue

hid_request(req) ==
    IF req.b_request \in HIDRequest THEN req.b_request ELSE NoValue

\* ------------------------------------------------- std::io::Cursor, Write
Cursor(out) == [buf |-> out, pos |-> 0]

\* Write::write_all on a Cursor<&mut [u8]>: copies what fits, and fails
\* with WriteZero when the slice is full before all bytes are written
write_all(sink, bytes) ==
    LET n == Min(Len(bytes), Len(sink.buf) - sink.pos)
    IN  [ sink |-> [ buf |-> [i \in 1..Len(sink.buf) |->
                                IF i > sink.pos /\ i <= sink.pos + n
                                THEN bytes[i - sink.pos]
                                ELSE sink.buf[i]],
                     pos |-> sink.pos + n ],
          res |-> IF n = Len(bytes) THEN "Ok" ELSE "Err" ]

write_struct_limited(sink, layout, data, limit) ==
    write_all(sink, SubSeq(as_bytes(layout, data), 1,
                           Min(limit, size_of(layout))))

write_struct(sink, layout, data) ==
    write_struct_limited(sink, layout, data, size_of(layout))

has_room(c) == c.pos < Len(c.buf)

\* str::encode_utf16 of a sequence of code points
RECURSIVE encode_utf16(_)
encode_utf16(text) ==
    IF text = <<>> THEN <<>>
    ELSE (IF text[1] < 65536
          THEN << text[1] >>
          ELSE << 55296 + ((text[1] - 65536) \div 1024),
                  56320 + ((text[1] - 65536) % 1024) >>)
         \o encode_utf16(Tail(text))

RECURSIVE units_to_le(_)
units_to_le(units) ==
    IF units = <<>> THEN <<>>
    ELSE to_le_bytes(units[1], 2) \o units_to_le(Tail(units))

\* ------------------------------------------------------ descriptor engine
\* every request function returns [out |-> the buffer, res |-> Ok/Err/Panic]
Result(out, res) == [out |-> out, res |-> res]

get_lang_descriptor(self, sink) ==
    write_struct(sink, usb_string_descriptor,
                 [ bLength |-> size_of(usb_string_descriptor) % 256,
                   bDescriptorType |-> DT_String,
                   wData |-> LANG_ID_EN_US ])

\* a string lookup that takes the table as indexed from 1
get_string_descriptor_m(self, index, sink) ==
    IF ~(index > 0) \/ index > Len(self.strings)
    THEN [sink |-> sink, res |-> "Panic"]
    ELSE LET text == self.strings[index]
             utf16_len == Len(encode_utf16(text))
             v == units_to_le(encode_utf16(text))
             r1 == write_all(sink, << (2 + ((utf16_len * 2) % 256)) % 256,
                                      DT_String >>)
         IN  IF r1.res # "Ok" THEN r1 ELSE write_all(r1.sink, v)

get_string_descriptor(self, index, sink) ==
    IF ~(index > 0) \/ index + 1 > Len(self.strings)
    THEN [sink |-> sink, res |-> "Panic"]
    ELSE LET text == self.strings[index + 1]
             utf16_len == Len(encode_utf16(text))
             v == units_to_le(encode_utf16(text))
             r1 == write_all(sink, << (2 + ((utf16_len * 2) % 256)) % 256,
                                      DT_String >>)
         IN  IF r1.res # "Ok" THEN r1 ELSE write_all(r1.sink, v)

RECURSIVE write_endpoints(_, _)
write_endpoints(sink, epds) ==
    IF epds = <<>> THEN [sink |-> sink, res |-> "Ok"]
    ELSE LET r == write_struct_limited(sink, usb_endpoint_descriptor,
                                       epds[1], epds[1].bLength)
         IN  IF r.res # "Ok" THEN r ELSE write_endpoints(r.sink, Tail(epds))

get_configuration(self, sink) ==
    LET r1 == write_struct(sink, usb_config_descriptor, self.config_descriptor)
    IN  IF r1.res # "Ok" THEN r1
        ELSE IF ~has_room(r1.sink) THEN r1
        ELSE LET r2 == write_struct(r1.sink, usb_interface_descriptor,
                                    self.interface_descriptor)
             IN  IF r2.res # "Ok" THEN r2
                 ELSE LET r3 == write_struct(r2.sink, usb_hid_descriptor,
                                             self.hid_descriptor)
                      IN  IF r3.res # "Ok" THEN r3
                          ELSE write_endpoints(r3.sink,
                                               self.endpoint_descriptors)

get_descriptor(self, req, out) ==
    LET value == args(req)[1]
        lang == args(req)[2]
        index == to_le_bytes(value, 2)[1]
        ty == to_le_bytes(value, 2)[2]
        sink == Cursor(out)
        r == IF ty \notin DescriptorType
                THEN [sink |-> sink, res |-> "Panic"]
             ELSE IF ty = DT_Device /\ index = 0 /\ lang = 0
                THEN write_struct(sink, usb_device_descriptor,
                                  self.device_descriptor)
             ELSE IF ty = DT_Configuration /\ index = 0 /\ lang = 0
                THEN get_configuration(self, sink)
             ELSE IF ty = DT_String /\ index = 0 /\ lang = 0
                THEN get_lang_descriptor(self, sink)
             ELSE IF ty = DT_String /\ lang = LANG_ID_EN_US
                THEN get_string_descriptor(self, index, sink)
             ELSE [sink |-> sink, res |-> "Panic"]
    IN  Result(r.sink.buf, r.res)

get_interface_descriptor(self, req, out) ==
    LET value == args(req)[1]
        desctype == to_le_bytes(value, 2)[2]
    IN  IF desctype = HID_DT_REPORT
        THEN LET r == write_all(Cursor(out), self.hid_report_descriptor)
             IN  Result(r.sink.buf, r.res)
        ELSE Result(out, "Panic")

ep0_dev2host(self, req, sink) ==
    IF request_type(req) = <<D2H, RT_Standard, RR_Device>>
    THEN IF std(req) = NoValue THEN Result(sink, "Panic")
         ELSE IF std(req) = SR_GetDescriptor
              THEN get_descriptor(self, req, sink)
         ELSE IF std(req) = SR_GetStatus /\ args(req) = <<0, 0, 2>>
              THEN IF Len(sink) = 2 THEN Result(<<1, 0>>, "Ok")
                   ELSE Result(sink, "Panic")
         ELSE Result(sink, "Panic")
    ELSE IF request_type(req) = <<D2H, RT_Standard, RR_Interface>>
    THEN IF std(req) = NoValue THEN Result(sink, "Panic")
         ELSE IF std(req) = SR_GetDescriptor
              THEN get_interface_descriptor(self, req, sink)
         ELSE Result(sink, "Panic")
    ELSE Result(sink, "Panic")

ep0_host2dev(self, req) ==
    IF request_type(req) = <<H2D, RT_Standard, RR_Device>>
    THEN IF std(req) = SR_SetConfiguration /\ args(req) = <<0, 0, 0>>
         THEN "Ok" ELSE "Panic"
    ELSE IF request_type(req) = <<H2D, RT_Class, RR_Interface>>
    THEN IF hid_request(req) = HID_SetIdle /\ args(req) = <<0, 0, 0>>
         THEN "Ok" ELSE "Panic"
    ELSE "Panic"

\* ------------------------------------------------- ctaphid::Parser (framer)
\* An EP2 OUT packet is [id, kind]: id is its submission number and kind
\* says what the 64 bytes are: a message that fits one INIT packet, the
\* INIT packet of a two-packet message, a CONT packet, or bytes the framer
\* cannot parse.
PacketKinds == {"INIT_SHORT", "INIT_LONG", "CONT", "BAD"}

NewParser == [recv_queue |-> <<>>, send_queue |-> <<>>, assembling |-> FALSE]

Frame(id, part) == [src |-> id, part |-> part]

\* Parser::parse: takes the oldest received packet and dispatches it; a
\* completed message appends its reply frames to the send queue
parse(p) ==
    LET pkt == Head(p.recv_queue)
        rest == Tail(p.recv_queue)
    IN  CASE pkt.kind = "INIT_SHORT" ->
               [ parser |-> [ recv_queue |-> rest,
                              send_queue |-> Append(p.send_queue,
                                                    Frame(pkt.id, 1)),
                              assembling |-> FALSE ],
                 res |-> "Ok" ]
          [] pkt.kind = "INIT_LONG" ->
               [ parser |-> [ recv_queue |-> rest,
                              send_queue |-> p.send_queue,
                              assembling |-> TRUE ],
                 res |-> "Ok" ]
          [] pkt.kind = "CONT" ->
               [ parser |-> [ recv_queue |-> rest,
                              send_queue |->
                                  IF p.assembling
                                  THEN p.send_queue \o << Frame(pkt.id, 1),
                                                          Frame(pkt.id, 2) >>
                                  ELSE Append(p.send_queue, Frame(pkt.id, 0)),
                              assembling |-> FALSE ],
                 res |-> "Ok" ]
          [] OTHER ->
               [ parser |-> [p EXCEPT !.recv_queue = rest], res |-> "Err" ]

\* Parser::unparse: moves the oldest reply frame into the buffer
unparse(p, buf) ==
    [ parser |-> [p EXCEPT !.send_queue = Tail(p.send_queue)],
      buf |-> << Head(p.send_queue) >>,
      res |-> "Ok" ]

\* ------------------------------------------------------------- event loop
\* EventLoop::unblock_handler(endpoint, _): the endpoint is ready again
unblock_handler(blocked, endpoint) == blocked \ {endpoint}

\* the loop parks an endpoint whose IN handler reported no data
park_if_idle(blocked, endpoint, status) ==
    IF status = "OkFalse" THEN blocked \cup {endpoint} ELSE blocked

\* ------------------------------------------------------ interrupt endpoints
\* the while loop of ep1_dev2host; log collects the ids it dispatched
RECURSIVE parse_all(_, _)
parse_all(p, log) ==
    IF p.recv_queue = <<>> THEN [parser |-> p, res |-> "Ok", log |-> log]
    ELSE LET r == parse(p)
             l == Append(log, Head(p.recv_queue).id)
         IN  IF r.res # "Ok"
             THEN [parser |-> r.parser, res |-> "Err", log |-> l]
             ELSE parse_all(r.parser, l)

ep1_dev2host(p, buf) ==
    LET r == parse_all(p, <<>>)
    IN  IF r.res # "Ok"
        THEN [parser |-> r.parser, buf |-> buf, res |-> "Err", log |-> r.log]
        ELSE IF r.parser.send_queue # <<>>
        THEN LET u == unparse(r.parser, buf)
             IN  [ parser |-> u.parser, buf |-> u.buf,
                   res |-> IF u.res = "Ok" THEN "OkTrue" ELSE "Err",
                   log |-> r.log ]
        ELSE [parser |-> r.parser, buf |-> buf, res |-> "OkFalse",
              log |-> r.log]

\* a receive queue that takes the new packet at its front
ep2_host2dev_m(p, data) ==
    [ parser |-> [p EXCEPT !.recv_queue = << data[1] >> \o p.recv_queue],
      res |-> "OkTrue" ]

ep2_host2dev(p, data) ==
    [ parser |-> [p EXCEPT !.recv_queue = Append(p.recv_queue, data[1])],
      res |-> "OkTrue" ]

\* ------------------------------------------------------------------- URBs
URB(endpoint, setup, transfer_buffer) ==
    [ endpoint |-> endpoint,
      setup |-> setup,
      transfer_buffer |-> transfer_buffer,
      complete |-> "Some",
      status |-> "None" ]

\* what is known of the URB a handler was last run on: the URB as the
\* handler left it, how often its completion callback ran, the status the
\* callback saw, whether the handler unblocked EP1, whether it panicked
Handled(dir, urb, callbacks, seen, unblocked, panicked) ==
    [ dir |-> dir, urb |-> urb, callbacks |-> callbacks, seen |-> seen,
      unblocked |-> unblocked, panicked |-> panicked ]

NoUrb == Handled("none", URB(0, <<>>, <<>>), 0, "None", FALSE, FALSE)

Panicked(dir, urb) == Handled(dir, urb, 0, "None", FALSE, TRUE)

\* a handler tail that runs the callback before it stores the status
complete_with_m(dir, urb, status, unblocked) ==
    IF urb.complete = "None" THEN Panicked(dir, urb)
    ELSE Handled(dir, [urb EXCEPT !.complete = "None", !.status = status],
                 1, urb.status, unblocked, FALSE)

\* urb.status = Some(..); urb.complete.take().unwrap()(urb)
complete_with(dir, urb, status, unblocked) ==
    LET u1 == [urb EXCEPT !.status = status]
    IN  IF u1.complete = "None" THEN Panicked(dir, u1)
        ELSE Handled(dir, [u1 EXCEPT !.complete = "None"], 1, u1.status,
                     unblocked, FALSE)

StatusOf(res) == IF res = "Ok" THEN "OkTrue" ELSE "Err"

\* ------------------------------------------------------------ the handlers
\* each handler maps the event loop el = [state, blocked] and a URB to the
\* new loop, the handled URB and the ids of the packets it dispatched
ep0_in_handler(el, urb) ==
    LET r == ep0_dev2host(el.state.device, SetupPacket(urb.setup),
                          urb.transfer_buffer)
        u == [urb EXCEPT !.transfer_buffer = r.out]
    IN  [ el |-> el,
          done |-> IF r.res = "Panic" THEN Panicked("in", u)
                   ELSE complete_with("in", u, StatusOf(r.res), FALSE),
          log |-> <<>> ]

\* an EP0 OUT handler that resets the framer when a request succeeds
ep0_out_handler_m(el, urb) ==
    LET r == ep0_host2dev(el.state.device, SetupPacket(urb.setup))
    IN  [ el |-> IF r = "Panic" THEN el
                 ELSE [el EXCEPT !.state.parser = NewParser],
          done |-> IF r = "Panic" THEN Panicked("out", urb)
                   ELSE complete_with("out", urb, StatusOf(r), FALSE),
          log |-> <<>> ]

ep0_out_handler(el, urb) ==
    LET r == ep0_host2dev(el.state.device, SetupPacket(urb.setup))
    IN  [ el |-> el,
          done |-> IF r = "Panic" THEN Panicked("out", urb)
                   ELSE complete_with("out", urb, StatusOf(r), FALSE),
          log |-> <<>> ]

ep1_in_handler(el, urb) ==
    LET r == ep1_dev2host(el.state.parser, urb.transfer_buffer)
        u == [urb EXCEPT !.transfer_buffer = r.buf]
        d == complete_with("in", u, r.res, FALSE)
    IN  [ el |-> [ state |-> [el.state EXCEPT !.parser = r.parser],
                   blocked |-> park_if_idle(el.blocked, 1, r.res) ],
          done |-> d,
          log |-> r.log ]

\* an unblock test that looks at the send queue only
should_unblock_m(p) == p.send_queue # <<>>

should_unblock(p) == p.recv_queue # <<>> \/ p.send_queue # <<>>

ep2_out_handler(el, urb) ==
    LET r == ep2_host2dev(el.state.parser, urb.transfer_buffer)
        unblock == should_unblock(r.parser)
    IN  [ el |-> [ state |-> [el.state EXCEPT !.parser = r.parser],
                   blocked |-> IF unblock
                               THEN unblock_handler(el.blocked, 1)
                               ELSE el.blocked ],
          done |-> complete_with("out", urb, r.res, unblock),
          log |-> <<>> ]

\* ------------------------------------------------------------------ state
VARIABLES
    device,      \* the descriptor tables and strings of the Device
    parser,      \* Device.parser: receive queue, send queue, assembly state
    blocked,     \* the endpoints the event loop holds blocked
    alive,       \* FALSE once a handler has panicked
    submitted,   \* number of packets submitted on EP2 OUT so far
    dispatched,  \* ids of the packets parse() has taken, in that order
    last,        \* the URB handled last
    pending      \* a descriptor request waiting on EP0 (<<>> when none)

vars == <<device, parser, blocked, alive, submitted, dispatched, last,
          pending>>

EventLoop == [state |-> [device |-> device, parser |-> parser],
              blocked |-> blocked]

Init ==
    /\ device = NewDevice
    /\ parser = NewParser
    /\ blocked = {}
    /\ alive = TRUE
    /\ submitted = 0
    /\ dispatched = <<>>
    /\ last = NoUrb
    /\ pending = <<>>

\* the effect of running a handler on a URB
Run(r) ==
    /\ device' = r.el.state.device
    /\ parser' = r.el.state.parser
    /\ blocked' = r.el.blocked
    /\ alive' = ~r.done.panicked
    /\ dispatched' = dispatched \o r.log
    /\ last' = r.done

\* -------------------------------------------------------------- SETUP bytes
Setup(bm, request, value, index, length) ==
    << bm, request, value % 256, value \div 256, index % 256,
       index \div 256, length % 256, length \div 256 >>

GET_DESCRIPTOR(ty, index, lang, length) ==
    Setup(128, SR_GetDescriptor, 256 * ty + index, lang, length)

GET_STATUS == Setup(128, SR_GetStatus, 0, 0, 2)
GET_REPORT_DESCRIPTOR(length) ==
    Setup(129, SR_GetDescriptor, 256 * HID_DT_REPORT, 0, length)
SET_CONFIGURATION(value) == Setup(0, SR_SetConfiguration, value, 0, 0)
SET_IDLE(value) == Setup(33, HID_SetIdle, value, 0, 0)

\* the descriptors a host asks for: device, configuration, language table
\* and the five strings the descriptors reference; and three it must not
DescriptorIds ==
    { <<DT_Device, 0, 0>>, <<DT_Configuration, 0, 0>>, <<DT_String, 0, 0>> }
    \cup { <<DT_String, i, LANG_ID_EN_US>> : i \in 1..5 }
    \cup { <<DT_String, 0, LANG_ID_EN_US>>, <<DT_String, 6, LANG_ID_EN_US>>,
           <<9, 0, 0>> }

\* the EP0 IN requests of the device run
ControlInSetups ==
    { GET_DESCRIPTOR(DT_Device, 0, 0, 8), GET_DESCRIPTOR(DT_Device, 0, 0, 18),
      GET_DESCRIPTOR(DT_Configuration, 0, 0, 9),
      GET_DESCRIPTOR(DT_Configuration, 0, 0, 10),
      GET_DESCRIPTOR(DT_Configuration, 0, 0, 255),
      GET_DESCRIPTOR(DT_String, 0, 0, 255),
      GET_DESCRIPTOR(DT_String, 2, LANG_ID_EN_US, 255),
      GET_DESCRIPTOR(DT_String, 6, LANG_ID_EN_US, 255),
      GET_DESCRIPTOR(9, 0, 0, 64),
      GET_STATUS,
      GET_REPORT_DESCRIPTOR(34),
      Setup(128, 2, 0, 0, 0),          \* no such standard request
      Setup(128, 8, 0, 0, 1),          \* GetConfiguration
      Setup(192, 1, 0, 0, 0),          \* vendor request
      Setup(130, SR_GetStatus, 0, 0, 2) }  \* endpoint recipient

\* the EP0 OUT requests of the device run
ControlOutSetups ==
    { SET_CONFIGURATION(0), SET_IDLE(0),
      SET_CONFIGURATION(1), SET_IDLE(1),
      Setup(0, 5, 1, 0, 0),            \* SetAddress
      Setup(33, 12, 0, 0, 0),          \* no such HID request
      Setup(64, 1, 0, 0, 0) }          \* vendor request

\* ---------------------------------------------------------------- actions
HandleEP0In(setup) ==
    /\ alive
    /\ Run(ep0_in_handler(EventLoop,
                          URB(0, setup, Zeros(SetupPacket(setup).w_length))))
    /\ UNCHANGED <<submitted, pending>>

HandleEP0Out(setup) ==
    /\ alive
    /\ Run(ep0_out_handler(EventLoop, URB(0, setup, <<>>)))
    /\ UNCHANGED <<submitted, pending>>

HandleEP2Out(kind) ==
    /\ alive
    /\ submitted < MaxPackets
    /\ Run(ep2_out_handler(EventLoop,
                           URB(2, <<>>, << [id |-> submitted, kind |-> kind] >>)))
    /\ submitted' = submitted + 1
    /\ UNCHANGED pending

EP0In == \E setup \in ControlInSetups : HandleEP0In(setup)

EP0Out == \E setup \in ControlOutSetups : HandleEP0Out(setup)

EP1In ==
    /\ alive
    /\ 1 \notin blocked
    /\ Run(ep1_in_handler(EventLoop, URB(1, <<>>, <<>>)))
    /\ UNCHANGED <<submitted, pending>>

EP2Out == \E kind \in PacketKinds : HandleEP2Out(kind)

Next == EP0In \/ EP0Out \/ EP1In \/ EP2Out

Spec == Init /\ [][Next]_vars

\* the descriptor engine alone: one GetDescriptor request, of any of the
\* descriptor ids and any buffer length, is waiting when the device starts
DescriptorRequests ==
    { GET_DESCRIPTOR(d[1], d[2], d[3], length) :
          d \in DescriptorIds, length \in 0..MaxBufLen }

DescInit ==
    /\ device = NewDevice
    /\ parser = NewParser
    /\ blocked = {}
    /\ alive = TRUE
    /\ submitted = 0
    /\ dispatched = <<>>
    /\ last = NoUrb
    /\ pending \in DescriptorRequests

GetDescriptorRequest ==
    /\ alive
    /\ pending # <<>>
    /\ Run(ep0_in_handler(EventLoop,
                          URB(0, pending, Zeros(SetupPacket(pending).w_length))))
    /\ pending' = <<>>
    /\ UNCHANGED submitted

DescNext == GetDescriptorRequest

DescSpec == DescInit /\ [][DescNext]_vars

\* ================================================================ claims
Range(q) == { q[i] : i \in 1..Len(q) }

Ids(q) == [i \in 1..Len(q) |-> q[i].id]

Increasing(q) == \A i, j \in 1..Len(q) : i < j => q[i] < q[j]

\* the last URB was a GetDescriptor(ty, index, lang) on EP0 IN
LastIsGetDescriptor(ty, index, lang) ==
    /\ last.dir = "in"
    /\ last.urb.endpoint = 0
    /\ last.urb.setup = GET_DESCRIPTOR(ty, index, lang,
                                       Len(last.urb.transfer_buffer))

LastLength == Len(last.urb.transfer_buffer)

Succeeded == ~last.panicked /\ last.urb.status = "OkTrue"

\* the buffer holds exactly the first min(L, |bytes|) bytes of bytes and is
\* untouched behind them
HoldsPrefixOf(bytes) ==
    LET n == Min(LastLength, Len(bytes))
    IN  last.urb.transfer_buffer = SubSeq(bytes, 1, n) \o Zeros(LastLength - n)

\* a descriptor as the host sees it: the first bLength bytes of the struct
Wire(layout, d) == SubSeq(as_bytes(layout, d), 1, d.bLength)

FullBundle ==
    Wire(usb_config_descriptor, device.config_descriptor)
    \o Wire(usb_interface_descriptor, device.interface_descriptor)
    \o Wire(usb_hid_descriptor, device.hid_descriptor)
    \o Wire(usb_endpoint_descriptor, device.endpoint_descriptors[1])
    \o Wire(usb_endpoint_descriptor, device.endpoint_descriptors[2])

SumOfLengths ==
    device.config_descriptor.bLength + device.interface_descriptor.bLength
    + device.hid_descriptor.bLength
    + device.endpoint_descriptors[1].bLength
    + device.endpoint_descriptors[2].bLength

\* C1: for every buffer length L in 0..255 a GetDescriptor(Configuration,
\* 0, 0) request succeeds and leaves exactly the first min(L, wTotalLength)
\* bytes of the bundle in the buffer; a length that ends inside the bundle
\* is truncated silently, not reported as a failure.
C1_ConfigurationTruncatesSilently ==
    LastIsGetDescriptor(DT_Configuration, 0, 0) =>
        /\ Succeeded
        /\ last.callbacks = 1
        /\ HoldsPrefixOf(FullBundle)

\* C2: wTotalLength is the sum of the bLength fields of the configuration,
\* interface, HID and both endpoint descriptors, and is the number of bytes
\* GetDescriptor(Configuration) writes into a buffer that is large enough;
\* with a 9-byte buffer the request returns exactly the 9-byte configuration
\* descriptor, which carries that same wTotalLength.
C2_TotalLength ==
    /\ device.config_descriptor.wTotalLength = SumOfLengths
    /\ Len(FullBundle) = device.config_descriptor.wTotalLength
    /\ ( LastIsGetDescriptor(DT_Configuration, 0, 0)
         /\ LastLength >= device.config_descriptor.wTotalLength
         => Succeeded /\ HoldsPrefixOf(FullBundle) )
    /\ ( LastIsGetDescriptor(DT_Configuration, 0, 0) /\ LastLength = 9
         => /\ Succeeded
            /\ last.urb.transfer_buffer
                 = as_bytes(usb_config_descriptor, device.config_descriptor)
            /\ from_le_bytes(last.urb.transfer_buffer[3],
                             last.urb.transfer_buffer[4]) = SumOfLengths )

C2_Witness ==
    /\ LastIsGetDescriptor(DT_Configuration, 0, 0)
    /\ LastLength = 255
    /\ Succeeded
    /\ last.urb.transfer_buffer[41] = 255
    /\ last.urb.transfer_buffer[42] = 0

\* C3: GetDescriptor(Device, 0, 0) with an 18-byte buffer succeeds and
\* returns 18 bytes with bLength=18, bDescriptorType=1, bcdUSB=0x0110 in
\* little-endian order, bDeviceClass=0, bMaxPacketSize0=64 and
\* bNumConfigurations=1, the same bytes whatever was handled before.
C3_DeviceDescriptor ==
    LastIsGetDescriptor(DT_Device, 0, 0) /\ LastLength = 18 =>
        /\ Succeeded
        /\ last.callbacks = 1
        /\ last.urb.transfer_buffer
             = <<18, 1, 16, 1, 0, 0, 0, 64, 0, 0, 0, 0, 1, 0, 1, 2, 3, 1>>

C3_Witness ==
    /\ LastIsGetDescriptor(DT_Device, 0, 0)
    /\ LastLength = 18
    /\ Succeeded
    /\ dispatched # <<>>
    /\ parser.send_queue # <<>>

\* C4: whatever SETUP packet an EP0 URB carries, the control engine either
\* performs the request or reports an error status for that URB; it never
\* panics, and the device stays able to serve the next URB.
C4_NeverPanics ==
    last.dir # "none" /\ last.urb.endpoint = 0 =>
        /\ ~last.panicked
        /\ alive
        /\ last.urb.status \in {"OkTrue", "Err"}

\* C5: an EP1 IN URB handled while the send queue holds no reply frame,
\* after all received packets were dispatched, is parked: its completion
\* callback is not invoked, so no EP1 IN URB completes without a frame.
C5_IdleInIsParked ==
    last.dir = "in" /\ last.urb.endpoint = 1 /\ last.callbacks > 0 =>
        /\ last.urb.status # "OkFalse"
        /\ (last.urb.status = "OkTrue" => Len(last.urb.transfer_buffer) = 1)

\* the packet of the EP2 OUT URB handled last
LastPacket == last.urb.transfer_buffer[1]

LastIsEP2Out == last.dir = "out" /\ last.urb.endpoint = 2

Utf16LE(text) ==
    [k \in 1..(2 * Len(text)) |->
        IF k % 2 = 1 THEN text[(k + 1) \div 2] % 256
        ELSE text[k \div 2] \div 256]

\* C7: GetDescriptor(String, 0, 0) returns the language descriptor
\* {4, DT_String, 0x09, 0x04}; for each referenced string index i in 1..5
\* with language 0x0409 and a large enough buffer the request succeeds and
\* returns {2 + 2*len, DT_String} followed by the UTF-16LE encoding of
\* entry i of the string table.
C7_StringDescriptors ==
    /\ ( LastIsGetDescriptor(DT_String, 0, 0) /\ LastLength >= 4
         => Succeeded /\ HoldsPrefixOf(<<4, 3, 9, 4>>) )
    /\ \A i \in 1..5 :
         LET text == strings[i + 1]
             expected == <<2 + 2 * Len(text), 3>> \o Utf16LE(text)
         IN  LastIsGetDescriptor(DT_String, i, LANG_ID_EN_US)
             /\ LastLength >= 2 + 2 * Len(text)
             => Succeeded /\ HoldsPrefixOf(expected)

C7_Witness ==
    /\ LastIsGetDescriptor(DT_String, 5, LANG_ID_EN_US)
    /\ LastLength = 28
    /\ Succeeded
    /\ last.urb.transfer_buffer[3] = 84
    /\ last.urb.transfer_buffer[28] = 0

\* C8: an EP0 OUT SetConfiguration(0) and an EP0 OUT SetIdle(0) request
\* each complete with success and change neither the descriptor table, the
\* string table nor the framer's queues, wherever in a run they come.
C8_SetRequestsAreNoOps ==
    [][ HandleEP0Out(SET_CONFIGURATION(0)) \/ HandleEP0Out(SET_IDLE(0))
        => /\ device' = device
           /\ parser' = parser
           /\ ~last'.panicked
           /\ last'.urb.status = "OkTrue"
           /\ last'.callbacks = 1 ]_vars

C8_Witness ==
    /\ last.dir = "out"
    /\ last.urb.endpoint = 0
    /\ last.urb.setup = SET_IDLE(0)
    /\ last.urb.status = "OkTrue"
    /\ parser.recv_queue # <<>>
    /\ parser.send_queue # <<>>

\* C9: EP2 OUT packets enter the receive queue in submission order and are
\* dispatched in that order; an EP1 IN URB that returns successfully has
\* dispatched every packet received so far and emits at most one frame, so
\* no frame is emitted ahead of the dispatch of an earlier packet.
C9_SubmissionOrder ==
    /\ Increasing(dispatched \o Ids(parser.recv_queue))
    /\ Range(dispatched \o Ids(parser.recv_queue)) = 0..(submitted - 1)
    /\ \A i \in 1..Len(parser.send_queue) :
           parser.send_queue[i].src \in Range(dispatched)
    /\ ( last.dir = "in" /\ last.urb.endpoint = 1
         /\ last.urb.status \in {"OkTrue", "OkFalse"}
         => /\ parser.recv_queue = <<>>
            /\ Range(dispatched) = 0..(submitted - 1)
            /\ Len(last.urb.transfer_buffer)
                 = (IF last.urb.status = "OkTrue" THEN 1 ELSE 0)
            /\ \A i \in 1..Len(last.urb.transfer_buffer) :
                   last.urb.transfer_buffer[i].src \in Range(dispatched) )

C9_Witness ==
    /\ last.dir = "in"
    /\ last.urb.endpoint = 1
    /\ last.urb.status = "OkTrue"
    /\ Len(dispatched) >= 2
    /\ parser.send_queue # <<>>

\* C10: a handler whose request processing returns sets the URB's status
\* to a value and then invokes the URB's completion callback exactly once:
\* no URB is completed with its status unset, completed twice or left in
\* flight.
C10_CompletedOnce ==
    last.dir # "none" /\ ~last.panicked =>
        /\ last.urb.status \in {"OkTrue", "OkFalse", "Err"}
        /\ last.callbacks = 1
        /\ last.seen = last.urb.status
        /\ last.urb.complete = "None"

C10_Witness ==
    /\ last.dir = "in"
    /\ last.urb.endpoint = 1
    /\ last.urb.status = "Err"
    /\ last.callbacks = 1

====
